---- MODULE Spec2Model ----
(***************************************************************************)
(* Model of pacti_counters.py: the instrumentation of the three            *)
(* PolyhedralIoContract operations (compose, quotient, merge), the         *)
(* snapshot object PolyhedralContractCounts and the aggregation            *)
(* polyhedral_count_stats.                                                  *)
(*                                                                         *)
(* A contract is seen only through what PolyhedralContractSize reads of    *)
(* it: the number of assumption terms (a), of guarantee terms (g) and of   *)
(* variables (vars).  An outcome of a call is [kind |-> "return", ...] or  *)
(* [kind |-> "raise", exc |-> <exception name>].                           *)
(***************************************************************************)
EXTENDS Integers, Sequences, FiniteSets, TLC

VARIABLES
    counter,    \* wrapper.counter of each wrapped operation
    min_size,   \* wrapper.min_size of each wrapped operation
    max_size,   \* wrapper.max_size of each wrapped operation
    snap,       \* the PolyhedralContractCounts object update_counts fills
    snapEq,     \* whether the last snapshot equalled (==) the one taken before it
    nsnaps,     \* how many snapshots were taken since the last wrapped call (capped at 2)
    invoked,    \* history: how many times each wrapper was entered
    measured,   \* history: the sizes measured by the calls that updated min/max
    last,       \* history: the last wrapped call (operation, fn's outcome, wrapper's outcome)
    rendered,   \* outcome of the last str(snap)
    xs,         \* operands handed to __add__ (three PolyhedralContractCounts)
    sums,       \* the results of the __add__ evaluations
    counts,     \* the list handed to polyhedral_count_stats
    stats       \* outcome of polyhedral_count_stats(counts)

vars == <<counter, min_size, max_size, snap, snapEq, nsnaps, invoked, measured,
          last, rendered, xs, sums, counts, stats>>

wrapperVars == <<counter, min_size, max_size, invoked, measured, last>>
snapVars == <<snap, snapEq, nsnaps, rendered>>
addVars == <<xs, sums>>
statVars == <<counts, stats>>

----------------------------------------------------------------------------
(* Bounds *)

\* Total number of wrapped calls in a behaviour.
MaxCalls == 3

\* Longest list handed to polyhedral_count_stats.
MaxRuns == 3

----------------------------------------------------------------------------
(* Program constants and value sets *)

\* sys.maxsize.  TLC's integers are 32 bits wide, so the value of a 32-bit
\* build (2^31 - 1) stands for it; the code only compares and copies it.
maxsize == 2147483647

Ops == {"compose", "quotient", "merge"}

None == [isNone |-> TRUE, a |-> 0, g |-> 0, vars |-> 0]

Contract(na, ng, nv) == [isNone |-> FALSE, a |-> na, g |-> ng, vars |-> nv]

\* The contracts the wrapped operations are called with ...
Operands == { Contract(1, 1, 3), Contract(2, 3, 1) }

\* ... and the contracts they return.
Results == { Contract(0, 1, 1), Contract(0, 1, 2) }

\* Positional argument tuples: zero, one or two contracts (the rest by keyword).
ArgTuples == {<<>>} \cup { <<c>> : c \in Operands } \cup (Operands \X Operands)

\* What the underlying operation can do with a call: return a contract or raise.
FnOutcomes == { [kind |-> "return", value |-> c] : c \in Results }
              \cup { [kind |-> "raise", exc |-> "FnError"] }

----------------------------------------------------------------------------
(* PolyhedralContractSize *)

Size(c, v) == [constraints |-> c, variables |-> v]

\* bool(contract): None is false, a contract object is true.
Truthy(contract) == ~contract.isNone

PolyhedralContractSize(contract, max_values) ==
    IF max_values THEN Size(maxsize, maxsize)
    ELSE IF Truthy(contract) THEN Size(contract.a + contract.g, contract.vars)
    ELSE Size(0, 0)

Size_eq(self, other) ==
    (self.constraints = other.constraints) /\ (self.variables = other.variables)

\* Mutant: __ge__ compares the constraint counts alone.
Size_ge_constraints_only(self, other) == self.constraints >= other.constraints

\* Tuple comparison (constraints, variables) >= (constraints, variables).
Size_ge(self, other) ==
    \/ self.constraints > other.constraints
    \/ self.constraints = other.constraints /\ self.variables >= other.variables

\* functools.total_ordering: __lt__ and __gt__ derived from __ge__ (and __ne__ from __eq__).
Size_lt(self, other) == ~Size_ge(self, other)

Size_gt(self, other) == Size_ge(self, other) /\ ~Size_eq(self, other)

\* The builtin min over sizes: the first item no later item is less than.
RECURSIVE size_min_from(_, _, _)
size_min_from(best, items, i) ==
    IF i > Len(items) THEN best
    ELSE size_min_from(IF Size_lt(items[i], best) THEN items[i] ELSE best, items, i + 1)

size_min(items) == size_min_from(items[1], items, 2)

\* The builtin max over sizes: the first item no later item is greater than.
RECURSIVE size_max_from(_, _, _)
size_max_from(best, items, i) ==
    IF i > Len(items) THEN best
    ELSE size_max_from(IF Size_gt(items[i], best) THEN items[i] ELSE best, items, i + 1)

size_max(items) == size_max_from(items[1], items, 2)

----------------------------------------------------------------------------
(* statistics_decorator *)

Raise(name) == [kind |-> "raise", exc |-> name]

\* No call made yet.
NoOutcome == [kind |-> "none"]

\* Mutant: the counter is incremented after fn returned instead of before the call.
wrapper_count_after(ctr, mn, mx, args, fn) ==
    LET unchanged(c, out) ==
            [counter |-> c, min_size |-> mn, max_size |-> mx, updated |-> FALSE, outcome |-> out]
    IN  IF fn.kind = "raise" THEN unchanged(ctr, fn)
        ELSE IF Len(args) < 2 THEN unchanged(ctr + 1, Raise("IndexError"))
        ELSE LET input_size1 == PolyhedralContractSize(args[1], FALSE)
                 input_size2 == PolyhedralContractSize(args[2], FALSE)
                 result_size == PolyhedralContractSize(fn.value, FALSE)
             IN  [counter  |-> ctr + 1,
                  min_size |-> size_min(<<mn, input_size1, input_size2, result_size>>),
                  max_size |-> size_max(<<mx, input_size1, input_size2, result_size>>),
                  updated  |-> TRUE,
                  outcome  |-> fn]

\* wrapper(*args, **kwargs) on the attributes (ctr, mn, mx) of one wrapped
\* operation; fn is the outcome of fn(*args, **kwargs).  The result is the
\* attributes after the call and what the caller sees.
wrapper(ctr, mn, mx, args, fn) ==
    LET ctr1 == ctr + 1
        unchanged(out) ==
            [counter |-> ctr1, min_size |-> mn, max_size |-> mx, updated |-> FALSE, outcome |-> out]
    IN  IF fn.kind = "raise" THEN unchanged(fn)
        ELSE IF Len(args) < 2 THEN unchanged(Raise("IndexError"))
        ELSE LET input_size1 == PolyhedralContractSize(args[1], FALSE)
                 input_size2 == PolyhedralContractSize(args[2], FALSE)
                 result_size == PolyhedralContractSize(fn.value, FALSE)
             IN  [counter  |-> ctr1,
                  min_size |-> size_min(<<mn, input_size1, input_size2, result_size>>),
                  max_size |-> size_max(<<mx, input_size1, input_size2, result_size>>),
                  updated  |-> TRUE,
                  outcome  |-> fn]

\* The sizes a call measures when it reaches the min/max update.
MeasuredSizes(args, fn) ==
    { PolyhedralContractSize(args[1], FALSE),
      PolyhedralContractSize(args[2], FALSE),
      PolyhedralContractSize(fn.value, FALSE) }

\* The attributes statistics_decorator gives a new wrapper.
InitCounter == [op \in Ops |-> 0]
InitMinSize == [op \in Ops |-> PolyhedralContractSize(None, TRUE)]
InitMaxSize == [op \in Ops |-> PolyhedralContractSize(None, FALSE)]

TotalInvoked == invoked["compose"] + invoked["quotient"] + invoked["merge"]

NoCall == [op |-> "none", fn |-> NoOutcome, outcome |-> NoOutcome]

\* One call of PolyhedralIoContract.<op> with positional arguments args.
Call(op, args, fn) ==
    /\ TotalInvoked < MaxCalls
    /\ LET w == wrapper(counter[op], min_size[op], max_size[op], args, fn)
       IN  /\ counter' = [counter EXCEPT ![op] = w.counter]
           /\ min_size' = [min_size EXCEPT ![op] = w.min_size]
           /\ max_size' = [max_size EXCEPT ![op] = w.max_size]
           /\ measured' = IF w.updated
                          THEN [measured EXCEPT ![op] = @ \cup MeasuredSizes(args, fn)]
                          ELSE measured
           /\ last' = [op |-> op, fn |-> fn, outcome |-> w.outcome]
    /\ invoked' = [invoked EXCEPT ![op] = @ + 1]
    /\ nsnaps' = 0
    /\ UNCHANGED <<snap, snapEq, rendered, xs, sums, counts, stats>>

----------------------------------------------------------------------------
(* PolyhedralContractCounts *)

\* PolyhedralContractCounts(): the dataclass defaults.
NewCounts ==
    [compose_count |-> 0, quotient_count |-> 0, merge_count |-> 0,
     compose_min_size  |-> PolyhedralContractSize(None, TRUE),
     quotient_min_size |-> PolyhedralContractSize(None, TRUE),
     merge_min_size    |-> PolyhedralContractSize(None, TRUE),
     compose_max_size  |-> PolyhedralContractSize(None, FALSE),
     quotient_max_size |-> PolyhedralContractSize(None, FALSE),
     merge_max_size    |-> PolyhedralContractSize(None, FALSE)]

\* Mutant: the counts are added to the object's own (+=) instead of assigned.
update_counts_accumulate(self, ctr, mn, mx) ==
    [self EXCEPT
        !.compose_count  = @ + ctr["compose"],
        !.quotient_count = @ + ctr["quotient"],
        !.merge_count    = @ + ctr["merge"],
        !.compose_min_size  = mn["compose"],
        !.quotient_min_size = mn["quotient"],
        !.merge_min_size    = mn["merge"],
        !.compose_max_size  = mx["compose"],
        !.quotient_max_size = mx["quotient"],
        !.merge_max_size    = mx["merge"]]

update_counts(self, ctr, mn, mx) ==
    [self EXCEPT
        !.compose_count  = ctr["compose"],
        !.quotient_count = ctr["quotient"],
        !.merge_count    = ctr["merge"],
        !.compose_min_size  = mn["compose"],
        !.quotient_min_size = mn["quotient"],
        !.merge_min_size    = mn["merge"],
        !.compose_max_size  = mx["compose"],
        !.quotient_max_size = mx["quotient"],
        !.merge_max_size    = mx["merge"]]

\* The dataclass __eq__: the fields compared as a tuple, sizes by their __eq__.
Counts_eq(self, other) ==
    /\ self.compose_count = other.compose_count
    /\ self.quotient_count = other.quotient_count
    /\ self.merge_count = other.merge_count
    /\ Size_eq(self.compose_min_size, other.compose_min_size)
    /\ Size_eq(self.quotient_min_size, other.quotient_min_size)
    /\ Size_eq(self.merge_min_size, other.merge_min_size)
    /\ Size_eq(self.compose_max_size, other.compose_max_size)
    /\ Size_eq(self.quotient_max_size, other.quotient_max_size)
    /\ Size_eq(self.merge_max_size, other.merge_max_size)

Counts_add(self, other) ==
    [compose_count  |-> self.compose_count + other.compose_count,
     quotient_count |-> self.quotient_count + other.quotient_count,
     merge_count    |-> self.merge_count + other.merge_count,
     compose_min_size  |-> size_min(<<self.compose_min_size, other.compose_min_size>>),
     quotient_min_size |-> size_min(<<self.quotient_min_size, other.quotient_min_size>>),
     merge_min_size    |-> size_min(<<self.merge_min_size, other.merge_min_size>>),
     compose_max_size  |-> size_max(<<self.compose_max_size, other.compose_max_size>>),
     quotient_max_size |-> size_max(<<self.quotient_max_size, other.quotient_max_size>>),
     merge_max_size    |-> size_max(<<self.merge_max_size, other.merge_max_size>>)]

\* str(n) of a non-negative int: its decimal digits.
Digit(d) == <<"0", "1", "2", "3", "4", "5", "6", "7", "8", "9">>[d + 1]

RECURSIVE str_int(_)
str_int(n) == IF n < 10 THEN <<Digit(n)>> ELSE str_int(n \div 10) \o <<Digit(n % 10)>>

Size_render(value) == IF maxsize = value THEN <<"inf">> ELSE str_int(value)

Size_str(self) ==
    <<"(constraints: ">> \o Size_render(self.constraints)
        \o <<", variables: ">> \o Size_render(self.variables) \o <<")">>

\* Attribute lookup on an object whose attributes are the fields of obj.
HasAttr(obj, name) == name \in DOMAIN obj

\* __str__ reads self.compose, self.quotient and self.merge for the first line.
Counts_str(self) ==
    IF ~HasAttr(self, "compose") \/ ~HasAttr(self, "quotient") \/ ~HasAttr(self, "merge")
    THEN Raise("AttributeError")
    ELSE [kind |-> "return",
          value |->
            <<"PolyhedralIoContract operation counts: compose=">> \o str_int(self.compose)
            \o <<", quotient=">> \o str_int(self.quotient)
            \o <<", merge=">> \o str_int(self.merge) \o <<".", "\n">>
            \o <<"min/max sizes for compose=">> \o Size_str(self.compose_min_size)
            \o <<"/">> \o Size_str(self.compose_max_size) \o <<"\n">>
            \o <<"min/max sizes for quotient=">> \o Size_str(self.quotient_min_size)
            \o <<"/">> \o Size_str(self.quotient_max_size) \o <<"\n">>
            \o <<"min/max sizes for merge=">> \o Size_str(self.merge_min_size)
            \o <<"/">> \o Size_str(self.merge_max_size) \o <<"\n">>]

\* counts.update_counts() on the snapshot object.
UpdateCounts ==
    /\ snap' = update_counts(snap, counter, min_size, max_size)
    /\ snapEq' = Counts_eq(update_counts(snap, counter, min_size, max_size), snap)
    /\ nsnaps' = IF nsnaps < 2 THEN nsnaps + 1 ELSE 2
    /\ UNCHANGED <<wrapperVars, rendered, addVars, statVars>>

\* str(counts) on the snapshot object.
Str ==
    /\ rendered' = Counts_str(snap)
    /\ UNCHANGED <<wrapperVars, snap, snapEq, nsnaps, addVars, statVars>>

----------------------------------------------------------------------------
(* The instrumented operations and their snapshots *)

InitWrappers ==
    /\ counter = InitCounter
    /\ min_size = InitMinSize
    /\ max_size = InitMaxSize
    /\ invoked = [op \in Ops |-> 0]
    /\ measured = [op \in Ops |-> {}]
    /\ last = NoCall

InitSnap ==
    /\ snap = NewCounts
    /\ snapEq = TRUE
    /\ nsnaps = 0
    /\ rendered = NoOutcome

Init ==
    /\ InitWrappers
    /\ InitSnap
    /\ xs = <<>>
    /\ sums = <<>>
    /\ counts = <<>>
    /\ stats = NoOutcome

Next ==
    \/ \E op \in Ops, args \in ArgTuples, fn \in FnOutcomes : Call(op, args, fn)
    \/ UpdateCounts
    \/ Str

Spec == Init /\ [][Next]_vars

----------------------------------------------------------------------------
(* The sum of snapshots: a + b *)

OpSample(n, mn, mx) == [count |-> n, min_size |-> mn, max_size |-> mx]

FreshOp == OpSample(0, PolyhedralContractSize(None, TRUE), PolyhedralContractSize(None, FALSE))

\* What one run can leave in the attributes of each wrapped operation.
ComposeSamples == { FreshOp,
                    OpSample(3, Size(1, 2), Size(2, 2)),
                    OpSample(5, Size(1, 1), Size(4, 1)),
                    OpSample(4, Size(2, 1), Size(3, 3)) }
QuotientSamples == { FreshOp, OpSample(1, Size(2, 3), Size(2, 4)) }
MergeSamples == { OpSample(2, Size(1, 1), Size(5, 1)), OpSample(1, Size(3, 2), Size(5, 3)) }

\* The snapshot update_counts takes when the wrappers hold c, q and m.
RunOf(c, q, m) ==
    update_counts(NewCounts,
                  [compose |-> c.count, quotient |-> q.count, merge |-> m.count],
                  [compose |-> c.min_size, quotient |-> q.min_size, merge |-> m.min_size],
                  [compose |-> c.max_size, quotient |-> q.max_size, merge |-> m.max_size])

SampleRuns == { RunOf(c, q, m) : c \in ComposeSamples, q \in QuotientSamples, m \in MergeSamples }

\* Evaluate (a + b) + c, a + (b + c), a + b and b + a for the operands xs = <<a, b, c>>.
Add ==
    /\ sums = <<>>
    /\ sums' = [ab_c |-> Counts_add(Counts_add(xs[1], xs[2]), xs[3]),
                a_bc |-> Counts_add(xs[1], Counts_add(xs[2], xs[3])),
                ab   |-> Counts_add(xs[1], xs[2]),
                ba   |-> Counts_add(xs[2], xs[1])]
    /\ UNCHANGED <<wrapperVars, snapVars, xs, statVars>>

InitAdd ==
    /\ InitWrappers
    /\ InitSnap
    /\ xs \in SampleRuns \X SampleRuns \X SampleRuns
    /\ sums = <<>>
    /\ counts = <<>>
    /\ stats = NoOutcome

NextAdd == Add

SpecAdd == InitAdd /\ [][NextAdd]_vars

----------------------------------------------------------------------------
(* polyhedral_count_stats *)

\* The builtin min, max and sum over ints.
RECURSIVE int_min_from(_, _, _)
int_min_from(best, items, i) ==
    IF i > Len(items) THEN best
    ELSE int_min_from(IF items[i] < best THEN items[i] ELSE best, items, i + 1)

int_min(items) == int_min_from(items[1], items, 2)

RECURSIVE int_max_from(_, _, _)
int_max_from(best, items, i) ==
    IF i > Len(items) THEN best
    ELSE int_max_from(IF items[i] > best THEN items[i] ELSE best, items, i + 1)

int_max(items) == int_max_from(items[1], items, 2)

RECURSIVE int_sum_from(_, _, _)
int_sum_from(acc, items, i) ==
    IF i > Len(items) THEN acc ELSE int_sum_from(acc + items[i], items, i + 1)

int_sum(items) == int_sum_from(0, items, 1)

RECURSIVE GCD(_, _)
GCD(x, y) == IF y = 0 THEN x ELSE GCD(y, x % y)

\* Mutant: floor division (//) instead of true division (/).
floor_div(x, n) == [num |-> x \div n, den |-> 1]

\* x / n on ints is the float nearest the quotient; the quotient is kept exact,
\* as the fraction in lowest terms (equal floats for equal fractions).
true_div(x, n) == LET d == GCD(x, n) IN [num |-> x \div d, den |-> n \div d]

\* (count.<field> for count in counts)
Field(cs, name) == [i \in 1..Len(cs) |-> cs[i][name]]

\* The statistics of a non-empty list.
stats_of(cs) ==
    LET n == Len(cs)
    IN [min_compose  |-> int_min(Field(cs, "compose_count")),
        min_quotient |-> int_min(Field(cs, "quotient_count")),
        min_merge    |-> int_min(Field(cs, "merge_count")),
        max_compose  |-> int_max(Field(cs, "compose_count")),
        max_quotient |-> int_max(Field(cs, "quotient_count")),
        max_merge    |-> int_max(Field(cs, "merge_count")),
        avg_compose  |-> true_div(int_sum(Field(cs, "compose_count")), n),
        avg_quotient |-> true_div(int_sum(Field(cs, "quotient_count")), n),
        avg_merge    |-> true_div(int_sum(Field(cs, "merge_count")), n),
        compose_min_size  |-> size_min(Field(cs, "compose_min_size")),
        quotient_min_size |-> size_min(Field(cs, "quotient_min_size")),
        merge_min_size    |-> size_min(Field(cs, "merge_min_size")),
        compose_max_size  |-> size_max(Field(cs, "compose_max_size")),
        quotient_max_size |-> size_max(Field(cs, "quotient_max_size")),
        merge_max_size    |-> size_max(Field(cs, "merge_max_size"))]

\* PolyhedralContractCountStats(): the dataclass defaults.
NewStats ==
    [min_compose |-> 0, min_quotient |-> 0, min_merge |-> 0,
     max_compose |-> 0, max_quotient |-> 0, max_merge |-> 0,
     avg_compose  |-> [num |-> 0, den |-> 1],
     avg_quotient |-> [num |-> 0, den |-> 1],
     avg_merge    |-> [num |-> 0, den |-> 1],
     compose_min_size  |-> PolyhedralContractSize(None, TRUE),
     quotient_min_size |-> PolyhedralContractSize(None, TRUE),
     merge_min_size    |-> PolyhedralContractSize(None, TRUE),
     compose_max_size  |-> PolyhedralContractSize(None, FALSE),
     quotient_max_size |-> PolyhedralContractSize(None, FALSE),
     merge_max_size    |-> PolyhedralContractSize(None, FALSE)]

\* Mutant: an empty list is answered with the default statistics
\* (min(..., default=0) and a guarded division).
polyhedral_count_stats_default(cs) ==
    IF Len(cs) = 0 THEN [kind |-> "return", value |-> NewStats]
    ELSE [kind |-> "return", value |-> stats_of(cs)]

\* min() of the empty generator raises ValueError at the first statistic.
polyhedral_count_stats(cs) ==
    IF Len(cs) = 0 THEN Raise("ValueError")
    ELSE [kind |-> "return", value |-> stats_of(cs)]

\* The caller collects one more run's snapshot.
AppendRun(run) ==
    /\ Len(counts) < MaxRuns
    /\ counts' = Append(counts, run)
    /\ stats' = NoOutcome
    /\ UNCHANGED <<wrapperVars, snapVars, addVars>>

\* stats = polyhedral_count_stats(counts)
Summarize ==
    /\ stats = NoOutcome
    /\ stats' = polyhedral_count_stats(counts)
    /\ UNCHANGED <<wrapperVars, snapVars, addVars, counts>>

InitStats ==
    /\ InitWrappers
    /\ InitSnap
    /\ xs = <<>>
    /\ sums = <<>>
    /\ counts = <<>>
    /\ stats = NoOutcome

NextStats ==
    \/ \E run \in SampleRuns : AppendRun(run)
    \/ Summarize

SpecStats == InitStats /\ [][NextStats]_vars

----------------------------------------------------------------------------
(* Properties *)

\* The lexicographic order on (constraints, variables), stated on its own.
LexLeq(x, y) ==
    \/ x.constraints < y.constraints
    \/ x.constraints = y.constraints /\ x.variables <= y.variables

LexLeast(S) == CHOOSE x \in S : \A y \in S : LexLeq(x, y)
LexGreatest(S) == CHOOSE x \in S : \A y \in S : LexLeq(y, x)

Least(S) == CHOOSE x \in S : \A y \in S : x <= y
Greatest(S) == CHOOSE x \in S : \A y \in S : y <= x

Range(f) == { f[i] : i \in DOMAIN f }

RECURSIVE SeqSum(_)
SeqSum(f) == IF Len(f) = 0 THEN 0 ELSE SeqSum(SubSeq(f, 1, Len(f) - 1)) + f[Len(f)]

ExampleSizes == { Size(2, 3), Size(5, 1), Size(1, 1) }

\* C1: a snapshot taken after N invocations of the wrapped compose (whatever
\* their arguments and outcomes) has compose_count = N, and likewise for
\* quotient and merge with their own counters.
C1_SnapshotCountsInvocations ==
    nsnaps >= 1 =>
        /\ snap.compose_count = invoked["compose"]
        /\ snap.quotient_count = invoked["quotient"]
        /\ snap.merge_count = invoked["merge"]

\* A snapshot taken after two compose calls, one of which raised, and one merge call.
C1_Witness ==
    /\ nsnaps >= 1
    /\ invoked["compose"] = 2
    /\ invoked["merge"] = 1
    /\ snap.compose_count = 2
    /\ snap.compose_max_size = Size(0, 0)

\* C2, as stated: min_size and max_size are computed per field independently
\* over the measured sizes (smallest/largest constraint count, smallest/largest
\* variable count); sizes (2,3), (5,1), (1,1) give (1,1) and (5,3).
C2_PerFieldMinMax ==
    \A op \in Ops :
        measured[op] # {} =>
            /\ min_size[op] = Size(Least({ m.constraints : m \in measured[op] }),
                                   Least({ m.variables : m \in measured[op] }))
            /\ max_size[op] = Size(Greatest({ m.constraints : m \in measured[op] }),
                                   Greatest({ m.variables : m \in measured[op] }))

\* C2, amended: min_size and max_size are the least and the greatest of the
\* measured sizes in the lexicographic (constraints, variables) order, each one
\* of the measured sizes as a whole; sizes (2,3), (5,1), (1,1) give min_size
\* (1,1) and max_size (5,1).
C2_LexicographicMinMax ==
    \A op \in Ops :
        /\ measured[op] # {} =>
            /\ min_size[op] = LexLeast(measured[op])
            /\ max_size[op] = LexGreatest(measured[op])
        /\ measured[op] = ExampleSizes =>
            /\ min_size[op] = Size(1, 1)
            /\ max_size[op] = Size(5, 1)

\* One compose call measuring the sizes (2,3), (5,1) and (1,1).
C2_Witness ==
    /\ measured["compose"] = ExampleSizes
    /\ counter["compose"] = 1
    /\ max_size["compose"] = Size(5, 1)
    /\ min_size["compose"] = Size(1, 1)

\* C3: once the invocation counter of an operation is >= 1 its min_size is
\* below its max_size in both fields; while the counter is 0, min_size is the
\* unbounded sentinel and max_size is (0,0).
C3_MinBelowMaxOnceInvoked ==
    \A op \in Ops :
        /\ counter[op] >= 1 =>
            /\ min_size[op].constraints <= max_size[op].constraints
            /\ min_size[op].variables <= max_size[op].variables
        /\ counter[op] = 0 =>
            /\ min_size[op] = Size(maxsize, maxsize)
            /\ max_size[op] = Size(0, 0)

\* C4: the caller of a wrapped operation sees the underlying operation's
\* outcome: the same result, or the same exception, and no other failure.
C4_WrapperTransparent ==
    last.op # "none" => last.outcome = last.fn

\* C7: str() of a PolyhedralContractCounts returns text and never raises.
C7_RenderSucceeds ==
    rendered.kind # "none" => rendered.kind = "return"

\* C8: update_counts reads the wrappers' attributes and leaves them as they
\* are: a snapshot shows the attributes the wrappers still hold, and two
\* snapshots with no wrapped call between them are equal.
C8_SnapshotIsRead ==
    /\ nsnaps >= 1 =>
        /\ snap.compose_count = counter["compose"]
        /\ snap.quotient_count = counter["quotient"]
        /\ snap.merge_count = counter["merge"]
        /\ snap.compose_min_size = min_size["compose"]
        /\ snap.quotient_min_size = min_size["quotient"]
        /\ snap.merge_min_size = min_size["merge"]
        /\ snap.compose_max_size = max_size["compose"]
        /\ snap.quotient_max_size = max_size["quotient"]
        /\ snap.merge_max_size = max_size["merge"]
    /\ nsnaps = 2 => snapEq

\* Two snapshots in a row after calls that were counted and measured.
C8_Witness ==
    /\ nsnaps = 2
    /\ snapEq
    /\ snap.compose_count >= 1
    /\ snap.compose_max_size # Size(0, 0)
    /\ snap.quotient_count >= 1

\* C10: a call in which the underlying operation raises leaves the
\* operation's counter, min_size and max_size as they were.
C10_RaiseLeavesStateUnchanged ==
    [][(invoked' # invoked /\ last'.fn.kind = "raise")
        => (counter' = counter /\ min_size' = min_size /\ max_size' = max_size)]_vars

\* C5: __add__ is associative and commutative on all nine fields.
C5_AddAssociativeCommutative ==
    sums # <<>> =>
        /\ sums.ab_c = sums.a_bc
        /\ sums.ab = sums.ba

\* Three different operands, two of them with min sizes that tie on constraints.
C5_Witness ==
    /\ sums # <<>>
    /\ xs[1] # xs[2] /\ xs[2] # xs[3] /\ xs[1] # xs[3]
    /\ xs[1].compose_min_size = Size(1, 2)
    /\ xs[2].compose_min_size = Size(1, 1)
    /\ sums.ab_c.compose_count = 12
    /\ sums.ba.compose_min_size = Size(1, 1)

\* What C6 says of one operation: counts n, min sizes mn, max sizes mx of the runs.
SummaryOf(lo, hi, avg, smin, smax, n, mn, mx) ==
    /\ lo = Least(Range(n))
    /\ hi = Greatest(Range(n))
    /\ avg.den > 0
    /\ avg.num * Len(n) = avg.den * SeqSum(n)
    /\ smin = LexLeast(Range(mn))
    /\ smax = LexGreatest(Range(mx))

\* C6: for a non-empty list of runs polyhedral_count_stats returns, for each
\* operation, the least and the greatest invocation count, the population mean
\* of the counts, the least min_size and the greatest max_size in the
\* lexicographic order; compose counts {3,5,4} with max sizes {(2,2),(4,1),(3,3)}
\* give 3, 5, 4 and (4,1); one run gives back its own count and sizes.
C6_SummaryOfRuns ==
    (stats.kind # "none" /\ Len(counts) > 0) =>
        /\ stats.kind = "return"
        /\ LET v == stats.value
           IN  /\ SummaryOf(v.min_compose, v.max_compose, v.avg_compose,
                            v.compose_min_size, v.compose_max_size,
                            Field(counts, "compose_count"),
                            Field(counts, "compose_min_size"),
                            Field(counts, "compose_max_size"))
               /\ SummaryOf(v.min_quotient, v.max_quotient, v.avg_quotient,
                            v.quotient_min_size, v.quotient_max_size,
                            Field(counts, "quotient_count"),
                            Field(counts, "quotient_min_size"),
                            Field(counts, "quotient_max_size"))
               /\ SummaryOf(v.min_merge, v.max_merge, v.avg_merge,
                            v.merge_min_size, v.merge_max_size,
                            Field(counts, "merge_count"),
                            Field(counts, "merge_min_size"),
                            Field(counts, "merge_max_size"))
               /\ (/\ Len(counts) = 3
                   /\ Range(Field(counts, "compose_count")) = {3, 5, 4}
                   /\ Range(Field(counts, "compose_max_size")) = {Size(2, 2), Size(4, 1), Size(3, 3)})
                  => /\ v.min_compose = 3
                     /\ v.max_compose = 5
                     /\ v.avg_compose = [num |-> 4, den |-> 1]
                     /\ v.compose_max_size = Size(4, 1)
               /\ Len(counts) = 1 =>
                     /\ v.min_compose = counts[1].compose_count
                     /\ v.max_compose = counts[1].compose_count
                     /\ v.avg_compose = [num |-> counts[1].compose_count, den |-> 1]
                     /\ v.compose_min_size = counts[1].compose_min_size
                     /\ v.compose_max_size = counts[1].compose_max_size

\* The statistics of three runs with compose counts 3, 5, 4.
C6_Witness ==
    /\ stats.kind = "return"
    /\ Field(counts, "compose_count") = <<3, 5, 4>>
    /\ Field(counts, "compose_max_size") = <<Size(2, 2), Size(4, 1), Size(3, 3)>>
    /\ stats.value.avg_compose = [num |-> 4, den |-> 1]
    /\ stats.value.compose_max_size = Size(4, 1)

\* C9: polyhedral_count_stats of an empty list raises and returns no statistics.
C9_EmptyRunsRaise ==
    (stats.kind # "none" /\ Len(counts) = 0) =>
        /\ stats.kind = "raise"
        /\ stats.exc = "ValueError"

\* polyhedral_count_stats was called with the empty list.
C9_Witness ==
    /\ Len(counts) = 0
    /\ stats.kind = "raise"

====
